---- MODULE Spec2Model ----
(***************************************************************************)
(* Model of STGCEncoderProducer/STGC_Encoder_producer.py: the bit pattern  *)
(* handling of UserParameters.__init__, the run-length scan and boundary   *)
(* merge of get_slots, and the angle walk of produce_slots.                *)
(*                                                                         *)
(* Angles are counted in integer multiples of bit_length_angle             *)
(* (= 2*pi / len(bits_pattern)), so a full circle is len(bits_pattern).    *)
(* A Python tuple (value, bit_length) is the TLA+ tuple <<value, length>>; *)
(* Python index i is TLA+ index i + 1.                                     *)
(***************************************************************************)
EXTENDS Integers, Sequences, FiniteSets, TLC

VARIABLES
    pc,                   \* position in run() / produce_slots / get_slots
    design,               \* truth value of `design` in run()
    bits_pattern_string,  \* UserParameters.bits_pattern_string (characters)
    bits_pattern,         \* UserParameters.bits_pattern (integers)
    bit_pos,              \* get_slots: loop variable
    current_length,       \* get_slots: current_length
    slots,                \* get_slots: slots, then produce_slots: slots
    extra_length,         \* get_slots: extra_length (0 while unassigned)
    slot_idx,             \* produce_slots: number of slots already walked
    start_angle,          \* produce_slots: start_angle, in bit units
    arcs,                 \* produce_slots: <<start, sweep>> of each sketch arc added
    error                 \* exception raised, "none" if none

vars == <<pc, design, bits_pattern_string, bits_pattern, bit_pos, current_length,
          slots, extra_length, slot_idx, start_angle, arcs, error>>

\* Longest pattern drawn besides the built-in one.
MaxLen == 5

\* Characters a pattern string is drawn from: the two binary digits, one
\* other decimal digit and one non-digit.
Chars == {"0", "1", "2", "x"}

\* The string literal assigned to bits_pattern_string.
BuiltinPatternString ==
    << "0", "0", "0", "0", "0", "0", "0", "0", "0", "0", "0", "0", "1", "1", "1", "0", "0", "0", "0", "0" >> \o
    << "0", "1", "1", "0", "0", "0", "0", "0", "0", "1", "1", "1", "1", "1", "1", "1", "1", "1", "1", "1" >> \o
    << "1", "1", "0", "0", "0", "1", "1", "1", "1", "1", "1", "0", "0", "1", "1", "1", "1", "1", "1", "0" >>

\* All sequences over S of length lo..hi.
SeqsOf(S, lo, hi) == UNION {[1..n -> S] : n \in lo..hi}

----------------------------------------------------------------------------
\* int(c) succeeds for decimal digits only.
IsDigit(c) == c \in {"0", "1", "2"}

IntOf(c) == CASE c = "0" -> 0 [] c = "1" -> 1 [] c = "2" -> 2

\* list(map(int, bits_pattern_string))
ParsePattern(str) == [i \in DOMAIN str |-> IntOf(str[i])]

\* str() of each bit, the inverse of ParsePattern on binary patterns
PatternToString(bits) == [i \in DOMAIN bits |-> IF bits[i] = 0 THEN "0" ELSE "1"]

PatternOk_subset(bits) == {bits[i] : i \in DOMAIN bits} \subseteq {0, 1}

\* sorted(set(self.bits_pattern)) == [0, 1]
PatternOk(bits) == {bits[i] : i \in DOMAIN bits} = {0, 1}

\* next_bit of get_slots; pos is the 0-based bit_pos
NextBit(pattern, pos) ==
    IF pos < Len(pattern) - 1 THEN pattern[pos + 2] ELSE pattern[1]

ClosesRun_nolast(current_bit, next_bit, pos, bits_count) == current_bit # next_bit

\* current_bit != next_bit or bit_pos == bits_count - 1
ClosesRun(current_bit, next_bit, pos, bits_count) ==
    current_bit # next_bit \/ pos = bits_count - 1

MergeCondition_never(s) == FALSE

\* slots[0][0] == slots[-1][0]
MergeCondition(s) == s[1][1] = s[Len(s)][1]

\* del slots[-1]
DelLast(s) == SubSeq(s, 1, Len(s) - 1)

\* slots[0] = (slots[0][0], slots[0][1] + extra_length)
AddToFirst(s, extra) == [s EXCEPT ![1] = <<s[1][1], s[1][2] + extra>>]

\* arc_length = slot[1] * bit_length_angle, in units of bit_length_angle
ArcLength(slot) == slot[2]

ArcEmitted_gap(slot) == slot[1] = 0

\* if slot[0] == 1
ArcEmitted(slot) == slot[1] = 1

NextStartAngle_arcsonly(start, slot) ==
    IF slot[1] = 1 THEN start + ArcLength(slot) ELSE start

\* start_angle += arc_length
NextStartAngle(start, slot) == start + ArcLength(slot)

----------------------------------------------------------------------------
\* Pattern strings run() is started with: the built-in literal and every
\* short string over Chars (an edited literal).
PatternStrings == SeqsOf(Chars, 0, MaxLen) \cup {BuiltinPatternString}

\* Patterns get_slots is applied to directly: N >= 1, every element in {0,1}.
ValidPatterns == SeqsOf({0, 1}, 1, MaxLen)

Locals ==
    /\ bit_pos = 0
    /\ current_length = 1
    /\ slots = <<>>
    /\ extra_length = 0
    /\ slot_idx = 0
    /\ start_angle = 0
    /\ arcs = <<>>
    /\ error = "none"

\* State at entry of run(context).
Init ==
    /\ pc = "run"
    /\ design \in BOOLEAN
    /\ bits_pattern_string \in PatternStrings
    /\ bits_pattern = <<>>
    /\ Locals

\* State at entry of produce_slots with user_params.bits_pattern any valid
\* pattern.
InitSlots ==
    /\ pc = "get_slots"
    /\ design = TRUE
    /\ bits_pattern \in ValidPatterns
    /\ bits_pattern_string = PatternToString(bits_pattern)
    /\ Locals

Raise(e) == pc' = "failed" /\ error' = e

\* run(): the design check and early return.
Run ==
    /\ pc = "run"
    /\ pc' = IF design THEN "user_params" ELSE "done"
    /\ UNCHANGED <<design, bits_pattern_string, bits_pattern, bit_pos, current_length,
                   slots, extra_length, slot_idx, start_angle, arcs, error>>

\* UserParameters.__init__: parse, bit_length_angle, assert.
UserParametersInit ==
    /\ pc = "user_params"
    /\ IF \E i \in DOMAIN bits_pattern_string : ~IsDigit(bits_pattern_string[i])
         THEN Raise("ValueError") /\ UNCHANGED bits_pattern
         ELSE /\ bits_pattern' = ParsePattern(bits_pattern_string)
              /\ IF Len(bits_pattern_string) = 0
                   THEN Raise("ZeroDivisionError")
                   ELSE IF ~PatternOk(ParsePattern(bits_pattern_string))
                          THEN Raise("AssertionError")
                          ELSE pc' = "get_slots" /\ UNCHANGED error
    /\ UNCHANGED <<design, bits_pattern_string, bit_pos, current_length,
                   slots, extra_length, slot_idx, start_angle, arcs>>

\* get_slots: one iteration of the scan loop.
GetSlotsScan ==
    /\ pc = "get_slots"
    /\ bit_pos < Len(bits_pattern)
    /\ LET current_bit == bits_pattern[bit_pos + 1]
           next_bit == NextBit(bits_pattern, bit_pos)
       IN  IF ClosesRun(current_bit, next_bit, bit_pos, Len(bits_pattern))
             THEN /\ slots' = Append(slots, <<current_bit, current_length>>)
                  /\ current_length' = 1
             ELSE /\ current_length' = current_length + 1
                  /\ UNCHANGED slots
    /\ bit_pos' = bit_pos + 1
    /\ UNCHANGED <<pc, design, bits_pattern_string, bits_pattern, extra_length,
                   slot_idx, start_angle, arcs, error>>

\* get_slots: the boundary merge after the loop, and the return.
GetSlotsMerge ==
    /\ pc = "get_slots"
    /\ bit_pos = Len(bits_pattern)
    /\ IF slots = <<>>
         THEN Raise("IndexError") /\ UNCHANGED <<slots, extra_length>>
         ELSE IF MergeCondition(slots)
                THEN /\ extra_length' = slots[Len(slots)][2]
                     /\ IF DelLast(slots) = <<>>
                          THEN Raise("IndexError") /\ slots' = DelLast(slots)
                          ELSE /\ slots' = AddToFirst(DelLast(slots), slots[Len(slots)][2])
                               /\ pc' = "produce_slots"
                               /\ UNCHANGED error
                ELSE /\ pc' = "produce_slots"
                     /\ UNCHANGED <<slots, extra_length, error>>
    /\ UNCHANGED <<design, bits_pattern_string, bits_pattern, bit_pos, current_length,
                   slot_idx, start_angle, arcs>>

\* produce_slots: one iteration of `for slot in slots`.
ProduceSlotsLoop ==
    /\ pc = "produce_slots"
    /\ slot_idx < Len(slots)
    /\ LET slot == slots[slot_idx + 1]
       IN  /\ arcs' = IF ArcEmitted(slot)
                        THEN Append(arcs, <<start_angle, ArcLength(slot)>>)
                        ELSE arcs
           /\ start_angle' = NextStartAngle(start_angle, slot)
    /\ slot_idx' = slot_idx + 1
    /\ UNCHANGED <<pc, design, bits_pattern_string, bits_pattern, bit_pos,
                   current_length, slots, extra_length, error>>

\* produce_slots: the loop is exhausted; profiles are extruded and the body
\* returned.
ProduceSlotsFinish ==
    /\ pc = "produce_slots"
    /\ slot_idx = Len(slots)
    /\ pc' = "done"
    /\ UNCHANGED <<design, bits_pattern_string, bits_pattern, bit_pos, current_length,
                   slots, extra_length, slot_idx, start_angle, arcs, error>>

Next ==
    \/ Run
    \/ UserParametersInit
    \/ GetSlotsScan
    \/ GetSlotsMerge
    \/ ProduceSlotsLoop
    \/ ProduceSlotsFinish

NextSlots ==
    \/ GetSlotsScan
    \/ GetSlotsMerge
    \/ ProduceSlotsLoop
    \/ ProduceSlotsFinish

\* run() on any pattern string.
Spec == Init /\ [][Next]_vars

\* produce_slots / get_slots on any valid pattern.
SpecSlots == InitSlots /\ [][NextSlots]_vars

----------------------------------------------------------------------------
\* Helpers for the properties.

RECURSIVE SumLen(_, _)
\* Sum of the lengths of the first n runs of s.
SumLen(s, n) == IF n = 0 THEN 0 ELSE SumLen(s, n - 1) + s[n][2]

RECURSIVE Expand(_)
\* Each run's bit repeated `length` times, concatenated in list order.
Expand(s) ==
    IF s = <<>> THEN <<>>
    ELSE [i \in 1..s[1][2] |-> s[1][1]] \o Expand(Tail(s))

\* pattern read circularly from 0-based index k.
ReadFrom(pattern, k) ==
    [i \in 1..Len(pattern) |-> pattern[((i - 1 + k) % Len(pattern)) + 1]]

Uniform(pattern) == \A i \in DOMAIN pattern : pattern[i] = pattern[1]

\* No two circularly-consecutive runs of s carry the same bit.
NoAdjacentEqual(s) ==
    \A j \in 1..Len(s) :
        LET n == (j % Len(s)) + 1
        IN  n # j => s[j][1] # s[n][1]

\* get_slots has returned its list to produce_slots.
GetSlotsReturned == pc = "produce_slots" \/ (pc = "done" /\ design)

\* get_slots has been left, by return or by exception.
GetSlotsExited == GetSlotsReturned \/ (pc = "failed" /\ error = "IndexError")

\* produce_slots has walked the whole run list.
SlotsWalked == pc = "done" /\ design

\* The 0-based unit sector i lies inside an arc added to the sketch.
InArc(i) ==
    \E a \in 1..Len(arcs) : arcs[a][1] <= i /\ i + 1 <= arcs[a][1] + arcs[a][2]

\* The 0-based unit sector i lies inside the span of a run of value 0.
InGap(i) ==
    \E j \in 1..Len(slots) :
        /\ slots[j][1] = 0
        /\ SumLen(slots, j - 1) <= i
        /\ i + 1 <= SumLen(slots, j)

----------------------------------------------------------------------------
\* C1: for every valid pattern (N >= 1, elements in {0,1}) get_slots returns
\* a run list whose run lengths sum to exactly N.
C1_RunLengthsSumToN ==
    GetSlotsExited =>
        /\ error = "none"
        /\ SumLen(slots, Len(slots)) = Len(bits_pattern)

\* C2: when all bits of the pattern are identical (the scan emits a single
\* run), get_slots returns exactly the one run (bit, N); the merge step does
\* not empty the list and does not raise.
C2_SingleRunMergeNoOp ==
    (GetSlotsExited /\ Uniform(bits_pattern)) =>
        /\ error = "none"
        /\ slots = << <<bits_pattern[1], Len(bits_pattern)>> >>

\* C3: once UserParameters.__init__ has run, it has failed exactly when the
\* pattern string is empty or holds a character other than 0 and 1; every
\* other pattern is accepted, and the run-length transformation that follows
\* does not fail.
C3_ValidationExact ==
    (pc \notin {"run", "user_params"} /\ design) =>
        /\ (error \in {"ValueError", "ZeroDivisionError", "AssertionError"})
             <=> \/ Len(bits_pattern_string) = 0
                 \/ \E i \in DOMAIN bits_pattern_string :
                        bits_pattern_string[i] \notin {"0", "1"}
        /\ error # "IndexError"

\* C4: in the list get_slots hands back, no two circularly-consecutive runs
\* (the last counted as adjacent to the first) have the same bit value, and
\* every run has length >= 1.
C4_NoAdjacentEqualRuns ==
    GetSlotsExited =>
        /\ NoAdjacentEqual(slots)
        /\ \A j \in 1..Len(slots) : slots[j][1] \in {0, 1} /\ slots[j][2] >= 1

C4_Witness ==
    /\ pc = "done"
    /\ error = "none"
    /\ extra_length > 0
    /\ Len(slots) >= 4

\* C5: round trip: expanding the runs of get_slots(pattern) in list order
\* gives the pattern read circularly from index 0 when no merge fired, and
\* from index N - k when a trailing run of length k was merged.
C5_RoundTrip ==
    GetSlotsExited =>
        Expand(slots) =
            ReadFrom(bits_pattern,
                     (Len(bits_pattern) - extra_length) % Len(bits_pattern))

\* C6: the merge step turns the raw scan list into: the list with its last
\* run dropped and that run's length added to the first run, exactly when the
\* first and last raw runs have the same bit value; the unchanged list
\* otherwise.
C6_BoundaryMerge ==
    [][(pc = "get_slots" /\ bit_pos = Len(bits_pattern) /\ slots # <<>>) =>
         /\ pc' = "produce_slots"
         /\ slots' = IF slots[1][1] = slots[Len(slots)][1]
                       THEN <<<<slots[1][1], slots[1][2] + slots[Len(slots)][2]>>>>
                            \o SubSeq(slots, 2, Len(slots) - 1)
                       ELSE slots]_vars

\* C7: in produce_slots the walk starts at angle 0, the start angle of each
\* run is the sum of the sweeps of the runs before it (no gap, no overlap),
\* and after the last run start_angle is N units, one full circle.
C7_AngleClosure ==
    GetSlotsReturned =>
        /\ start_angle = SumLen(slots, slot_idx)
        /\ slot_idx = 0 => start_angle = 0
        /\ slot_idx = Len(slots) => start_angle = Len(bits_pattern)
        /\ \A a \in 1..Len(arcs) :
              /\ arcs[a][2] >= 1
              /\ arcs[a][1] + arcs[a][2] <= start_angle
              /\ a < Len(arcs) => arcs[a][1] + arcs[a][2] <= arcs[a + 1][1]

C7_Witness ==
    /\ SlotsWalked
    /\ Len(slots) >= 3
    /\ Len(arcs) >= 1
    /\ start_angle = Len(bits_pattern)

\* C8 (as stated): the built-in pattern is 63 characters long and decodes
\* into runs whose lengths sum to 63, no two adjacent runs of equal value.
C8_Builtin63 ==
    (bits_pattern_string = BuiltinPatternString /\ SlotsWalked) =>
        /\ Len(bits_pattern_string) = 63
        /\ SumLen(slots, Len(slots)) = 63
        /\ NoAdjacentEqual(slots)

\* C8 (amended): the built-in pattern is 60 characters long, run() does not
\* fail on it, and get_slots decodes it into runs whose lengths sum to 60,
\* no two adjacent runs (post-merge) of equal value.
C8_Builtin60 ==
    bits_pattern_string = BuiltinPatternString =>
        /\ Len(bits_pattern_string) = 60
        /\ pc # "failed"
        /\ GetSlotsReturned =>
              /\ SumLen(slots, Len(slots)) = 60
              /\ NoAdjacentEqual(slots)

C8_Witness ==
    /\ bits_pattern_string = BuiltinPatternString
    /\ SlotsWalked
    /\ slots = << <<0, 13>>, <<1, 3>>, <<0, 6>>, <<1, 2>>, <<0, 6>>,
                  <<1, 13>>, <<0, 3>>, <<1, 6>>, <<0, 2>>, <<1, 6>> >>

\* C9 (as stated): once the slots are laid out, for every bit index i the
\* unit sector i counted from angle 0 lies in a slot arc if pattern[i] = 1
\* and in a skipped gap if pattern[i] = 0.
C9_GeometryFromIndex0 ==
    SlotsWalked =>
        \A i \in 0..(Len(bits_pattern) - 1) :
            IF bits_pattern[i + 1] = 1
              THEN InArc(i) /\ ~InGap(i)
              ELSE InGap(i) /\ ~InArc(i)

\* C9 (amended): the geometry represents the pattern read circularly from
\* the first position of the first emitted run: with k the length of the
\* trailing run merged into the first one (0 when no merge fired), bit i
\* occupies the unit sector (i + k) mod N.
C9_GeometryFromFirstRun ==
    SlotsWalked =>
        \A i \in 0..(Len(bits_pattern) - 1) :
            LET sector == (i + extra_length) % Len(bits_pattern)
            IN  IF bits_pattern[i + 1] = 1
                  THEN InArc(sector) /\ ~InGap(sector)
                  ELSE InGap(sector) /\ ~InArc(sector)

C9_Witness ==
    /\ SlotsWalked
    /\ extra_length > 0
    /\ Len(arcs) >= 1
    /\ bits_pattern[1] = 1

\* C10: in run(), get_slots and produce_slots are reached only with the
\* parsed pattern holding at least one 0 and at least one 1; the raw scan
\* holds at least two runs when the merge step executes, the list is not
\* empty after `del slots[-1]`, and get_slots returns at least two runs.
C10_MixedPatternOnly ==
    /\ (pc \in {"get_slots", "produce_slots"} \/ SlotsWalked) =>
          /\ bits_pattern = ParsePattern(bits_pattern_string)
          /\ \E i \in DOMAIN bits_pattern : bits_pattern[i] = 0
          /\ \E i \in DOMAIN bits_pattern : bits_pattern[i] = 1
    /\ (pc = "get_slots" /\ bit_pos = Len(bits_pattern)) =>
          /\ Len(slots) >= 2
          /\ slots[1][1] = slots[Len(slots)][1] => Len(slots) - 1 >= 1
    /\ GetSlotsReturned => Len(slots) >= 2
    /\ error # "IndexError"

C10_Witness ==
    /\ pc = "produce_slots"
    /\ extra_length > 0
    /\ Len(slots) = 2

====
